---- MODULE Spec2Model ----
(***************************************************************************)
(* Model of the FSEvents watcher of fsevent-dump: the flag translator      *)
(* (src/src/fsevent.rs translate_flags), the watcher lifecycle and the OS  *)
(* callback (src/src/fsevent.rs and src/src/lib.rs).                       *)
(*                                                                         *)
(* A flag word (u32) is modelled as the set of its set bit positions,      *)
(* a subset of 0..31; Option<T> is modelled as a set with at most one      *)
(* element.                                                                *)
(***************************************************************************)
EXTENDS Integers, Sequences, FiniteSets, TLC

\* ------------------------------------------------------------------------
\* Bounds of the model
\* ------------------------------------------------------------------------
MaxBits == 4
MaxPaths == 2
MaxEvents == 2
MaxOrphans == 1

\* ------------------------------------------------------------------------
\* StreamFlags: bit positions of the named flags (fsevent.rs 29-57)
\* ------------------------------------------------------------------------
MUST_SCAN_SUBDIRS == 0
USER_DROPPED == 1
KERNEL_DROPPED == 2
IDS_WRAPPED == 3
HISTORY_DONE == 4
ROOT_CHANGED == 5
MOUNT == 6
UNMOUNT == 7
ITEM_CREATED == 8
ITEM_REMOVED == 9
INODE_META_MOD == 10
ITEM_RENAMED == 11
ITEM_MODIFIED == 12
FINDER_INFO_MOD == 13
ITEM_CHANGE_OWNER == 14
ITEM_XATTR_MOD == 15
IS_FILE == 16
IS_DIR == 17
IS_SYMLINK == 18
OWN_EVENT == 19
IS_HARDLINK == 20
IS_LAST_HARDLINK == 21
ITEM_CLONED == 22

\* all bits named by the bitflags! declaration
StreamFlags ==
  { MUST_SCAN_SUBDIRS, USER_DROPPED, KERNEL_DROPPED, IDS_WRAPPED, HISTORY_DONE,
    ROOT_CHANGED, MOUNT, UNMOUNT, ITEM_CREATED, ITEM_REMOVED, INODE_META_MOD,
    ITEM_RENAMED, ITEM_MODIFIED, FINDER_INFO_MOD, ITEM_CHANGE_OWNER,
    ITEM_XATTR_MOD, IS_FILE, IS_DIR, IS_SYMLINK, OWN_EVENT, IS_HARDLINK,
    IS_LAST_HARDLINK, ITEM_CLONED }

\* ------------------------------------------------------------------------
\* Events (crate::event as used by translate_flags)
\* ------------------------------------------------------------------------
\* Event::new(kind): no paths, no attributes
EventNew(kind) ==
  [kind |-> kind, paths |-> <<>>, flag |-> {}, info |-> {}, process_id |-> {}]

set_flag(e, f) == [e EXCEPT !.flag = {f}]

set_info(e, s) == [e EXCEPT !.info = {s}]

set_process_id(e, pid) == [e EXCEPT !.process_id = {pid}]

\* ------------------------------------------------------------------------
\* translate_flags (fsevent.rs 76-222), one operator per rule
\* ------------------------------------------------------------------------
history_gate_never(flags) == FALSE

\* lines 89-91: the sentinel stops processing
history_gate(flags) == HISTORY_DONE \in flags

rescan_rule_kernel_first(flags) ==
  IF MUST_SCAN_SUBDIRS \in flags
  THEN LET e == set_flag(EventNew("Other"), "Rescan")
       IN << IF KERNEL_DROPPED \in flags THEN set_info(e, "rescan: kernel dropped")
             ELSE IF USER_DROPPED \in flags THEN set_info(e, "rescan: user dropped")
             ELSE e >>
  ELSE <<>>

\* lines 97-106
rescan_rule(flags) ==
  IF MUST_SCAN_SUBDIRS \in flags
  THEN LET e == set_flag(EventNew("Other"), "Rescan")
       IN << IF USER_DROPPED \in flags THEN set_info(e, "rescan: user dropped")
             ELSE IF KERNEL_DROPPED \in flags THEN set_info(e, "rescan: kernel dropped")
             ELSE e >>
  ELSE <<>>

imprecise_never(precise) == FALSE

\* line 110: imprecise mode returns after the rescan rule
imprecise_short_circuit(precise) == ~precise

\* lines 118-123
root_changed_rule(flags) ==
  IF ROOT_CHANGED \in flags
  THEN << set_info(EventNew("Modify(Name(From))"), "root changed") >>
  ELSE <<>>

\* lines 126-128
mount_rule(flags) ==
  IF MOUNT \in flags THEN << set_info(EventNew("Create(Other)"), "mount") >> ELSE <<>>

\* lines 131-133
unmount_rule(flags) ==
  IF UNMOUNT \in flags THEN << set_info(EventNew("Remove(Other)"), "mount") >> ELSE <<>>

item_event_file_first(flags, prefix) ==
  IF IS_FILE \in flags THEN EventNew(prefix \o "(File)")
  ELSE IF IS_DIR \in flags THEN EventNew(prefix \o "(Folder)")
  ELSE LET e == EventNew(prefix \o "(Other)")
       IN IF IS_SYMLINK \in flags THEN set_info(e, "is: symlink")
          ELSE IF IS_HARDLINK \in flags THEN set_info(e, "is: hardlink")
          ELSE IF ITEM_CLONED \in flags THEN set_info(e, "is: clone")
          ELSE EventNew(prefix \o "(Any)")

\* lines 136-151 and 155-170: the event of a created (prefix "Create") or
\* removed (prefix "Remove") item
item_event(flags, prefix) ==
  IF IS_DIR \in flags THEN EventNew(prefix \o "(Folder)")
  ELSE IF IS_FILE \in flags THEN EventNew(prefix \o "(File)")
  ELSE LET e == EventNew(prefix \o "(Other)")
       IN IF IS_SYMLINK \in flags THEN set_info(e, "is: symlink")
          ELSE IF IS_HARDLINK \in flags THEN set_info(e, "is: hardlink")
          ELSE IF ITEM_CLONED \in flags THEN set_info(e, "is: clone")
          ELSE EventNew(prefix \o "(Any)")

\* lines 135-152
item_created_rule(flags) ==
  IF ITEM_CREATED \in flags THEN << item_event(flags, "Create") >> ELSE <<>>

\* lines 154-171
item_removed_rule(flags) ==
  IF ITEM_REMOVED \in flags THEN << item_event(flags, "Remove") >> ELSE <<>>

\* lines 173-177
item_renamed_rule(flags) ==
  IF ITEM_RENAMED \in flags THEN << EventNew("Modify(Name(From))") >> ELSE <<>>

\* lines 182-186
inode_meta_rule(flags) ==
  IF INODE_META_MOD \in flags THEN << EventNew("Modify(Metadata(Any))") >> ELSE <<>>

\* lines 188-193
finder_info_rule(flags) ==
  IF FINDER_INFO_MOD \in flags
  THEN << set_info(EventNew("Modify(Metadata(Other))"), "meta: finder info") >>
  ELSE <<>>

\* lines 195-199
change_owner_rule(flags) ==
  IF ITEM_CHANGE_OWNER \in flags THEN << EventNew("Modify(Metadata(Ownership))") >> ELSE <<>>

\* lines 201-205
xattr_rule(flags) ==
  IF ITEM_XATTR_MOD \in flags THEN << EventNew("Modify(Metadata(Extended))") >> ELSE <<>>

\* lines 209-213
item_modified_rule(flags) ==
  IF ITEM_MODIFIED \in flags THEN << EventNew("Modify(Data(Content))") >> ELSE <<>>

precise_rules_meta_before_rename(flags) ==
  root_changed_rule(flags) \o mount_rule(flags) \o unmount_rule(flags)
    \o item_created_rule(flags) \o item_removed_rule(flags)
    \o inode_meta_rule(flags) \o item_renamed_rule(flags)
    \o finder_info_rule(flags) \o change_owner_rule(flags)
    \o xattr_rule(flags) \o item_modified_rule(flags)

\* lines 118-213: the pushes of precise mode, in program order
precise_rules(flags) ==
  root_changed_rule(flags) \o mount_rule(flags) \o unmount_rule(flags)
    \o item_created_rule(flags) \o item_removed_rule(flags)
    \o item_renamed_rule(flags) \o inode_meta_rule(flags)
    \o finder_info_rule(flags) \o change_owner_rule(flags)
    \o xattr_rule(flags) \o item_modified_rule(flags)

own_event_stamp_skip_rescan(flags, evs, pid) ==
  IF OWN_EVENT \in flags
  THEN [i \in 1..Len(evs) |->
          IF evs[i].flag = {"Rescan"} THEN evs[i] ELSE set_process_id(evs[i], pid)]
  ELSE evs

own_event_stamp_first_only(flags, evs, pid) ==
  IF OWN_EVENT \in flags
  THEN [i \in 1..Len(evs) |-> IF i = 1 THEN set_process_id(evs[i], pid) ELSE evs[i]]
  ELSE evs

\* lines 215-219: every event pushed so far is stamped
own_event_stamp(flags, evs, pid) ==
  IF OWN_EVENT \in flags
  THEN [i \in 1..Len(evs) |-> set_process_id(evs[i], pid)]
  ELSE evs

\* lines 76-222; pid is std::process::id()
translate_flags(flags, precise, pid) ==
  IF history_gate(flags) THEN <<>>
  ELSE IF imprecise_short_circuit(precise)
       THEN rescan_rule(flags) \o << EventNew("Any") >>
       ELSE own_event_stamp(flags, rescan_rule(flags) \o precise_rules(flags), pid)


\* ------------------------------------------------------------------------
\* Inputs
\* ------------------------------------------------------------------------
\* flag words with at most n bits set, all of them named
RECURSIVE FlagSetsUpTo(_)
FlagSetsUpTo(n) ==
  IF n = 0 THEN {{}}
  ELSE LET S == FlagSetsUpTo(n - 1) IN S \cup {s \cup {b} : s \in S, b \in StreamFlags}

\* values of std::process::id()
Pids == {1, 4242}

\* paths a user passes to watch(): "/a/." is a second spelling of "/a",
\* "/gone" does not exist
WatchPaths == {"/a", "/a/.", "/b", "/gone"}

\* std::path::Path::exists on the model's file system
exists(path) == path \in {"/a", "/a/.", "/b"}

\* std::fs::canonicalize on the model's file system
canonicalize(path) == IF path = "/a/." THEN "/a" ELSE path

\* C strings the OS passes to the callback, as bytes
PathA == << 47, 97 >>              \* "/a"
PathHg == << 47, 46, 104, 103 >>   \* "/.hg"
PathAccent == << 47, 195, 169 >>   \* "/" and a two-byte UTF-8 character
PathBad == << 47, 255 >>           \* "/" and 0xFF, not UTF-8
PathDeep == << 47, 97, 47, 120, 47, 121 >>   \* "/a/x/y"

\* a flag word with a bit that StreamFlags does not name
UndefinedBitWord == {ITEM_MODIFIED, 31}

\* the notifications the OS passes to the callback
Notifications ==
  { [path |-> PathA, flags |-> {MUST_SCAN_SUBDIRS, ITEM_MODIFIED}],
    [path |-> PathA, flags |-> UndefinedBitWord],
    [path |-> PathAccent, flags |-> {ITEM_CREATED, IS_FILE}],
    [path |-> PathHg, flags |-> UndefinedBitWord],
    [path |-> PathBad, flags |-> {ITEM_CREATED, IS_FILE}],
    [path |-> PathDeep, flags |-> {ITEM_CREATED, IS_FILE}] }

RECURSIVE SeqsUpTo(_, _)
SeqsUpTo(S, n) ==
  IF n = 0 THEN {<<>>}
  ELSE LET T == SeqsUpTo(S, n - 1) IN T \cup {Append(t, x) : t \in T, x \in S}

\* ------------------------------------------------------------------------
\* State
\* ------------------------------------------------------------------------
VARIABLES
  flags,          \* translate_flags: the flag set argument
  precise,        \* translate_flags: the precise argument
  pid,            \* std::process::id()
  evs,            \* translate_flags: the returned Vec<Event>
  tdone,          \* translate_flags has returned
  impl,           \* which FsEventWatcher: "fsevent" (fsevent.rs) or "lib" (lib.rs)
  watcher,        \* "alive" | "dropped"
  array,          \* the CFMutableArray behind FsEventWatcher.paths: "live" | "released"
  handler,        \* the event_handler given to new: "held" | "dropped" | "none" (lib.rs)
  settings,       \* FsEventWatcher.since_when, .latency and .flags
  proc,           \* the process: "up" | "aborted"
  pc,             \* the thread calling the API: "idle" | "runloop" (waiting inside
                  \* CFRunLoopRun) | "callback" (inside CFRunLoopRun, in the callback)
  paths,          \* FsEventWatcher.paths: contents of the CFMutableArray
  recursive_info, \* FsEventWatcher.recursive_info: set of <<canonical path, recursive>>
  runloop,        \* FsEventWatcher.runloop: Option<(CFRunLoopRef, JoinHandle)>
  appendResult,   \* watch_inner: the local `result` of the call in progress or last made
  result,         \* what the last API call returned to its caller, or "panic"
  stream,         \* the stream of the current run(): "none" | "null" | "started" | "released"
  calls,          \* native calls run() has made for that stream, in order
  context,        \* the StreamContextInfo of the current run(): "none" | "live" | "freed" | "leaked"
  ctxInfo,        \* its recursive_info snapshot
  orphanStreams,  \* streams left started by an unwound run()
  cbInput,        \* the callback invocation in progress: the notifications
  cbOut,          \* that invocation: the lines printed, one per reported index
  cbPanicAt,      \* that invocation: index (1-based) that panicked, 0 if none
  cbCalled,       \* callback_impl has run for that invocation
  cbDelivered     \* that invocation: events that reached the user's handler

vars == << flags, precise, pid, evs, tdone, impl, watcher, array, handler, settings, proc,
           pc, paths,
           recursive_info, runloop, appendResult, result, stream, calls,
           context, ctxInfo, orphanStreams, cbInput, cbOut, cbPanicAt,
           cbCalled, cbDelivered >>

translateVars == << flags, precise, evs, tdone >>

watcherVars == << impl, watcher, array, handler, settings, proc, pc, paths,
                  recursive_info, runloop,
                  appendResult, result, stream, calls, context, ctxInfo,
                  orphanStreams >>

callbackVars == << cbInput, cbOut, cbPanicAt, cbCalled, cbDelivered >>

\* Watcher::new (fsevent.rs 401-403) does not pass event_handler on: it is
\* dropped when new returns. FsEventWatcher::new of lib.rs takes no handler.
new_handler == IF impl = "fsevent" THEN "dropped" ELSE "none"

\* FsEventWatcher::from_event_handler (fsevent.rs 249-260) / FsEventWatcher::new (lib.rs 59-68)
from_event_handler ==
  /\ watcher = "alive"
  /\ array = "live"
  /\ handler = new_handler
  /\ settings = [since_when |-> "SinceNow", latency |-> 0,
                 flags |-> {"FileEvents", "NoDefer"}]
  /\ proc = "up"
  /\ pc = "idle"
  /\ paths = <<>>
  /\ recursive_info = {}
  /\ runloop = {}
  /\ appendResult = "none"
  /\ result = "none"
  /\ stream = "none"
  /\ calls = <<>>
  /\ context = "none"
  /\ ctxInfo = {}
  /\ orphanStreams = 0
  /\ cbInput = <<>>
  /\ cbOut = <<>>
  /\ cbPanicAt = 0
  /\ cbCalled = FALSE
  /\ cbDelivered = <<>>

\* a call translate_flags(flags, precise) about to be made
InitTranslate ==
  /\ flags \in FlagSetsUpTo(MaxBits)
  /\ precise \in BOOLEAN
  /\ pid \in Pids
  /\ evs = <<>>
  /\ tdone = FALSE
  /\ impl = "fsevent"
  /\ from_event_handler

\* a freshly constructed watcher
Init ==
  /\ flags = {}
  /\ precise = TRUE
  /\ pid = 4242
  /\ evs = <<>>
  /\ tdone = FALSE
  /\ impl \in {"fsevent", "lib"}
  /\ from_event_handler

\* ------------------------------------------------------------------------
\* Translator call
\* ------------------------------------------------------------------------
Translate ==
  /\ ~tdone
  /\ evs' = translate_flags(flags, precise, pid)
  /\ tdone' = TRUE
  /\ UNCHANGED << flags, precise, pid >>
  /\ UNCHANGED watcherVars
  /\ UNCHANGED callbackVars

NextTranslate == Translate

SpecTranslate == InitTranslate /\ [][NextTranslate]_vars


\* ------------------------------------------------------------------------
\* Watcher: watch, run, configure, drop
\* ------------------------------------------------------------------------
\* HashMap::insert on a map kept as a set of <<key, value>>
insert(map, k, v) == {e \in map : e[1] # k} \cup {<<k, v>>}

\* what the file system does during append_path: "ok", "cf_null"
\* (str_path_to_cfstring_ref returns null) or "canon_err" (canonicalize()
\* returns Err)
FsOutcomes == {"ok", "cf_null", "canon_err"}

\* what FSEventStreamCreate does: "ok", or it returns null and the native calls
\* on the null stream crash ("null_crash") or do nothing ("null_noop")
CreateOutcomes == {"ok", "null_crash", "null_noop"}

\* fsevent.rs 270-292; the Err of canonicalize() is unwrapped
append_path(ps, ri, path, recursive, fs) ==
  IF ~exists(path) THEN [paths |-> ps, recursive_info |-> ri, res |-> "PathNotFound"]
  ELSE IF fs = "cf_null" THEN [paths |-> ps, recursive_info |-> ri, res |-> "PathNotFound"]
  ELSE IF fs = "canon_err"
       THEN [paths |-> Append(ps, path), recursive_info |-> ri, res |-> "panic"]
       ELSE [paths |-> Append(ps, path),
             recursive_info |-> insert(ri, canonicalize(path), recursive),
             res |-> "Ok"]

\* lib.rs 76-91: assert!(path.exists()) and panic!("path not found")
lib_append_path(ps, ri, path, fs) ==
  IF ~exists(path) THEN [paths |-> ps, recursive_info |-> ri, res |-> "panic"]
  ELSE IF fs = "cf_null" THEN [paths |-> ps, recursive_info |-> ri, res |-> "panic"]
  ELSE [paths |-> Append(ps, path), recursive_info |-> ri, res |-> "Ok"]

\* fsevent.rs 294-343 / lib.rs 93-131, up to the point where the calling
\* thread enters CFRunLoopRun. Reads the primed registry written by
\* append_path.
run(create) ==
  IF Len(paths') = 0
  THEN \* fsevent.rs 295-298 returns Err, which watch_inner ignores;
       \* lib.rs 94-96 panics
       /\ result' = IF impl = "fsevent" THEN appendResult' ELSE "panic"
       /\ UNCHANGED << proc, pc, stream, calls, context, ctxInfo >>
  ELSE /\ ctxInfo' = recursive_info'
       /\ IF create = "ok"
          THEN /\ stream' = "started"
               /\ context' = "live"
               /\ calls' = << "Create", "ScheduleWithRunLoop", "Start", "CFRunLoopRun" >>
               /\ pc' = "runloop"
               /\ result' = "blocked"
               /\ UNCHANGED proc
          ELSE /\ stream' = "null"
               /\ context' = "leaked"
               /\ IF create = "null_crash"
                  THEN /\ calls' = << "Create", "ScheduleWithRunLoop" >>
                       /\ proc' = "aborted"
                       /\ result' = "blocked"
                       /\ UNCHANGED pc
                  ELSE /\ calls' = << "Create", "ScheduleWithRunLoop", "Start", "CFRunLoopRun" >>
                       /\ pc' = "runloop"
                       /\ result' = "blocked"
                       /\ UNCHANGED proc

\* fsevent.rs 262-267 (watch, 405-407) / lib.rs 70-73
watch_inner(path, recursive, fs, create) ==
  /\ watcher = "alive"
  /\ proc = "up"
  /\ pc = "idle"
  /\ Len(paths) < MaxPaths
  /\ LET a == IF impl = "fsevent"
              THEN append_path(paths, recursive_info, path, recursive, fs)
              ELSE lib_append_path(paths, recursive_info, path, fs)
     IN /\ paths' = a.paths
        /\ recursive_info' = a.recursive_info
        /\ appendResult' = a.res
        /\ IF a.res = "panic"
           THEN /\ result' = "panic"
                /\ UNCHANGED << proc, pc, stream, calls, context, ctxInfo >>
           ELSE run(create)
  /\ cbInput' = <<>>
  /\ cbOut' = <<>>
  /\ cbPanicAt' = 0
  /\ cbCalled' = FALSE
  /\ cbDelivered' = <<>>
  /\ UNCHANGED << impl, array, handler, settings, watcher, runloop, orphanStreams, pid >>
  /\ UNCHANGED translateVars

\* fsevent.rs 337-342 / lib.rs 125-130: CFRunLoopRun returns (the run loop of
\* the calling thread was stopped from outside), the stream is stopped,
\* invalidated and released (the OS runs release_context), then panic!("no")
run_exit ==
  /\ proc = "up"
  /\ pc = "runloop"
  /\ calls' = calls \o << "Stop", "Invalidate", "Release" >>
  /\ stream' = IF stream = "started" THEN "released" ELSE stream
  /\ context' = IF stream = "started" THEN "freed" ELSE context
  /\ pc' = "idle"
  /\ result' = "panic"
  /\ UNCHANGED << impl, array, handler, settings, watcher, proc, paths, recursive_info, runloop, appendResult,
                  ctxInfo, orphanStreams, pid >>
  /\ UNCHANGED translateVars
  /\ UNCHANGED callbackVars

\* the options of the specification's configuration table, and one that is
\* not in it
RecognizedConfigs == {"latency_seconds", "since_event_id", "precise_events"}

Configs == RecognizedConfigs \cup {"other"}

\* a configure that recognizes the options of the table
configure_recognizing(config) ==
  /\ impl = "fsevent"
  /\ watcher = "alive"
  /\ proc = "up"
  /\ pc = "idle"
  /\ result' = IF config \in RecognizedConfigs THEN "Ok(true)" ELSE "Ok(false)"
  /\ settings' = IF config = "latency_seconds" THEN [settings EXCEPT !.latency = 1]
                 ELSE IF config = "since_event_id" THEN [settings EXCEPT !.since_when = "Id"]
                 ELSE settings
  /\ UNCHANGED << impl, array, handler, watcher, proc, pc, paths, recursive_info, runloop,
                  appendResult, stream, calls, context, ctxInfo, orphanStreams, pid >>
  /\ UNCHANGED translateVars
  /\ UNCHANGED callbackVars

\* fsevent.rs 345-349 and 409-413: the option is not looked at (_config);
\* Ok(false) is sent on a fresh channel and received back
configure(config) ==
  /\ impl = "fsevent"
  /\ watcher = "alive"
  /\ proc = "up"
  /\ pc = "idle"
  /\ result' = "Ok(false)"
  /\ UNCHANGED << impl, array, handler, settings, watcher, proc, pc, paths, recursive_info, runloop,
                  appendResult, stream, calls, context, ctxInfo, orphanStreams, pid >>
  /\ UNCHANGED translateVars
  /\ UNCHANGED callbackVars

\* Watcher::unwatch, called by test_fsevent_watcher_drop (fsevent.rs 431); the
\* impl block (fsevent.rs 399-414) has no body for it. Modelled from the
\* specification: a watched path is removed from the path list and the
\* registry, and the stream is restarted with the remaining paths by the only
\* code that starts a stream, run(); an unwatched path gives WatchNotFound.
unwatch(path, create) ==
  /\ impl = "fsevent"
  /\ watcher = "alive"
  /\ proc = "up"
  /\ pc = "idle"
  /\ LET c == canonicalize(path)
     IN IF \E e \in recursive_info : e[1] = c
        THEN /\ paths' = SelectSeq(paths, LAMBDA p : canonicalize(p) # c)
             /\ recursive_info' = {e \in recursive_info : e[1] # c}
             /\ IF Len(paths') = 0
                THEN /\ result' = "Ok"
                     /\ UNCHANGED << proc, pc, stream, calls, context, ctxInfo >>
                ELSE run(create)
        ELSE /\ result' = "WatchNotFound"
             /\ UNCHANGED << paths, recursive_info, proc, pc, stream, calls,
                             context, ctxInfo >>
  /\ UNCHANGED << impl, array, handler, settings, watcher, runloop, appendResult, orphanStreams, pid >>
  /\ UNCHANGED translateVars
  /\ UNCHANGED callbackVars

\* fsevent.rs 60-67 / lib.rs 41-46: FsEventWatcher has no Drop implementation;
\* dropping it drops the fields
drop ==
  /\ watcher = "alive"
  /\ proc = "up"
  /\ pc = "idle"
  /\ watcher' = "dropped"
  /\ UNCHANGED << impl, array, handler, settings, proc, pc, paths, recursive_info, runloop, appendResult,
                  result, stream, calls, context, ctxInfo, orphanStreams, pid >>
  /\ UNCHANGED translateVars
  /\ UNCHANGED callbackVars

\* ------------------------------------------------------------------------
\* OS callback
\* ------------------------------------------------------------------------
\* UTF-8 validation of CStr::to_str, on sequences of one to four bytes
\* (overlong and surrogate encodings are not distinguished)
RECURSIVE utf8_valid_from(_, _)
utf8_valid_from(b, i) ==
  LET cont(j) == j <= Len(b) /\ b[j] >= 128 /\ b[j] <= 191
  IN IF i > Len(b) THEN TRUE
     ELSE IF b[i] < 128 THEN utf8_valid_from(b, i + 1)
     ELSE IF b[i] >= 194 /\ b[i] <= 223 THEN cont(i + 1) /\ utf8_valid_from(b, i + 2)
     ELSE IF b[i] >= 224 /\ b[i] <= 239
          THEN cont(i + 1) /\ cont(i + 2) /\ utf8_valid_from(b, i + 3)
     ELSE IF b[i] >= 240 /\ b[i] <= 244
          THEN cont(i + 1) /\ cont(i + 2) /\ cont(i + 3) /\ utf8_valid_from(b, i + 4)
     ELSE FALSE

\* CStr::to_str: Some(str) as {bytes}, Err as {}
to_str(b) == IF utf8_valid_from(b, 1) THEN {b} ELSE {}

\* ".hg"
DotHg == << 46, 104, 103 >>

\* str::contains
contains(b, pat) ==
  \E i \in 1..Len(b) : i + Len(pat) - 1 <= Len(b) /\ SubSeq(b, i, i + Len(pat) - 1) = pat

\* StreamFlags::from_bits: Some(flags) as {flags}, None as {}
from_bits(word) == IF word \subseteq StreamFlags THEN {word} ELSE {}

\* the loop with the flag word decoded before the ".hg" test
RECURSIVE callback_loop_decode_first(_, _, _, _)
callback_loop_decode_first(v, input, p, out) ==
  IF p > Len(input) THEN [out |-> out, panicAt |-> 0]
  ELSE IF to_str(input[p].path) = {} THEN [out |-> out, panicAt |-> p]
  ELSE IF from_bits(input[p].flags) = {} THEN [out |-> out, panicAt |-> p]
  ELSE IF v = "fsevent" /\ contains(input[p].path, DotHg)
       THEN callback_loop_decode_first(v, input, p + 1, out)
  ELSE callback_loop_decode_first(v, input, p + 1,
                     Append(out, [path |-> input[p].path, flag |-> input[p].flags]))

\* fsevent.rs 381-396 / lib.rs 164-176: the loop over the notifications from
\* index p on; out holds the lines printed so far. v is the variant: only
\* fsevent.rs skips paths containing ".hg"
RECURSIVE callback_loop(_, _, _, _)
callback_loop(v, input, p, out) ==
  IF p > Len(input) THEN [out |-> out, panicAt |-> 0]
  ELSE IF to_str(input[p].path) = {} THEN [out |-> out, panicAt |-> p]
  ELSE IF v = "fsevent" /\ contains(input[p].path, DotHg)
       THEN callback_loop(v, input, p + 1, out)
  ELSE IF from_bits(input[p].flags) = {} THEN [out |-> out, panicAt |-> p]
  ELSE callback_loop(v, input, p + 1,
                     Append(out, [path |-> input[p].path, flag |-> input[p].flags]))

\* fsevent.rs 371-397 / lib.rs 154-177
callback_impl(v, input) == callback_loop(v, input, 1, <<>>)

\* fsevent.rs 351-369 / lib.rs 134-152: the OS invokes the trampoline on the
\* thread inside CFRunLoopRun. A panic leaves an extern "C" function either by
\* aborting the process or by unwinding through the frames of the run loop
\* (panicUb), which leaves the stream started.
callback(input, panicUb) ==
  /\ proc = "up"
  /\ pc = "runloop"
  /\ stream = "started" \/ orphanStreams > 0
  /\ LET r == callback_impl(impl, input)
     IN /\ cbInput' = input
        /\ cbOut' = r.out
        /\ cbPanicAt' = r.panicAt
        /\ cbCalled' = TRUE
        /\ cbDelivered' = <<>>
        /\ IF r.panicAt = 0
           THEN /\ pc' = "callback"
                /\ UNCHANGED << proc, result, stream, orphanStreams >>
           ELSE IF panicUb = "abort"
                THEN /\ proc' = "aborted"
                     /\ pc' = "callback"
                     /\ UNCHANGED << result, stream, orphanStreams >>
                ELSE /\ orphanStreams < MaxOrphans
                     /\ pc' = "idle"
                     /\ result' = "panic"
                     /\ stream' = IF stream = "started" THEN "orphaned" ELSE stream
                     /\ orphanStreams' = IF stream = "started"
                                         THEN orphanStreams + 1 ELSE orphanStreams
                     /\ UNCHANGED proc
  /\ UNCHANGED << impl, array, handler, settings, watcher, paths, recursive_info, runloop, appendResult,
                  calls, context, ctxInfo, pid >>
  /\ UNCHANGED translateVars

\* the trampoline returns to the run loop, which waits for the next batch;
\* the record of the invocation is dropped
callback_return ==
  /\ proc = "up"
  /\ pc = "callback"
  /\ pc' = "runloop"
  /\ cbInput' = <<>>
  /\ cbOut' = <<>>
  /\ cbPanicAt' = 0
  /\ cbCalled' = FALSE
  /\ cbDelivered' = <<>>
  /\ UNCHANGED << impl, array, handler, settings, watcher, proc, paths, recursive_info, runloop, appendResult,
                  result, stream, calls, context, ctxInfo, orphanStreams, pid >>
  /\ UNCHANGED translateVars

Next ==
  \/ \E path \in WatchPaths, recursive \in BOOLEAN, fs \in FsOutcomes,
        create \in CreateOutcomes :
          watch_inner(path, recursive, fs, create)
  \/ run_exit
  \/ \E config \in Configs : configure(config)
  \/ \E path \in WatchPaths, create \in CreateOutcomes : unwatch(path, create)
  \/ drop
  \/ \E input \in SeqsUpTo(Notifications, MaxEvents), panicUb \in {"abort", "unwind"} :
          callback(input, panicUb)
  \/ callback_return

Spec == Init /\ [][Next]_vars

\* the calls of the API alone, with a quiet file system: no notification
\* arrives while a call is inside the run loop
NextApi ==
  \/ \E path \in WatchPaths, recursive \in BOOLEAN, fs \in FsOutcomes,
        create \in CreateOutcomes :
          watch_inner(path, recursive, fs, create)
  \/ run_exit
  \/ \E config \in Configs : configure(config)
  \/ \E path \in WatchPaths, create \in CreateOutcomes : unwatch(path, create)
  \/ drop

SpecApi == Init /\ [][NextApi]_vars

\* one invocation of the callback: watch("/a", Recursive) has started its
\* stream and the OS is about to call the callback with cbInput
InitCallback ==
  /\ flags = {}
  /\ precise = TRUE
  /\ pid = 4242
  /\ evs = <<>>
  /\ tdone = FALSE
  /\ impl \in {"fsevent", "lib"}
  /\ watcher = "alive"
  /\ array = "live"
  /\ handler = new_handler
  /\ settings = [since_when |-> "SinceNow", latency |-> 0,
                 flags |-> {"FileEvents", "NoDefer"}]
  /\ proc = "up"
  /\ pc = "callback"
  /\ paths = << "/a" >>
  /\ recursive_info = IF impl = "fsevent" THEN {<< "/a", TRUE >>} ELSE {}
  /\ runloop = {}
  /\ appendResult = "Ok"
  /\ result = "blocked"
  /\ stream = "started"
  /\ calls = << "Create", "ScheduleWithRunLoop", "Start", "CFRunLoopRun" >>
  /\ context = "live"
  /\ ctxInfo = recursive_info
  /\ orphanStreams = 0
  /\ cbInput \in SeqsUpTo(Notifications, MaxEvents)
  /\ cbOut = <<>>
  /\ cbPanicAt = 0
  /\ cbCalled = FALSE
  /\ cbDelivered = <<>>

\* fsevent.rs 371-397 / lib.rs 154-177: callback_impl runs on the notifications
CallbackImpl ==
  /\ ~cbCalled
  /\ LET r == callback_impl(impl, cbInput)
     IN /\ cbOut' = r.out
        /\ cbPanicAt' = r.panicAt
  /\ cbCalled' = TRUE
  /\ UNCHANGED << cbInput, cbDelivered, pid >>
  /\ UNCHANGED translateVars
  /\ UNCHANGED watcherVars

NextCallback == CallbackImpl

SpecCallback == InitCallback /\ [][NextCallback]_vars

\* ------------------------------------------------------------------------
\* Properties of translate_flags (checked under SpecTranslate)
\* ------------------------------------------------------------------------
\* the bits that have a rule of their own, in rule order
RuleBits ==
  << MUST_SCAN_SUBDIRS, ROOT_CHANGED, MOUNT, UNMOUNT, ITEM_CREATED, ITEM_REMOVED,
     ITEM_RENAMED, INODE_META_MOD, FINDER_INFO_MOD, ITEM_CHANGE_OWNER,
     ITEM_XATTR_MOD, ITEM_MODIFIED >>

ProducingBits == {RuleBits[i] : i \in 1..Len(RuleBits)}

CreateKinds == {"Create(Folder)", "Create(File)", "Create(Other)", "Create(Any)"}

RemoveKinds == {"Remove(Folder)", "Remove(File)", "Remove(Other)", "Remove(Any)"}

Stamped(s) == \A i \in 1..Len(s) : s[i].process_id = {pid}

Unstamped(s) == \A i \in 1..Len(s) : s[i].process_id = {}

IsRescanEvent(e) == e.kind = "Other" /\ e.flag = {"Rescan"}

IsPlainAny(e) == e.kind = "Any" /\ e.flag = {} /\ e.info = {} /\ e.process_id = {}

\* C1: whenever HISTORY_DONE is in the flag set, translate_flags returns the
\* empty sequence, for both values of precise and whatever other bits are set.
C1_HistoryDoneEmpty ==
  (tdone /\ HISTORY_DONE \in flags) => evs = <<>>

C1_Witness ==
  /\ tdone
  /\ {HISTORY_DONE, MUST_SCAN_SUBDIRS, ITEM_CREATED, OWN_EVENT} \subseteq flags
  /\ evs = <<>>

\* C2: with precise = FALSE the result is empty under HISTORY_DONE, otherwise
\* exactly one Any event, preceded by one Other/Rescan event exactly when
\* MUST_SCAN_SUBDIRS is set; no Create, Remove or Modify event appears.
C2_ImpreciseShape ==
  (tdone /\ ~precise) =>
     IF HISTORY_DONE \in flags THEN evs = <<>>
     ELSE IF MUST_SCAN_SUBDIRS \notin flags
          THEN Len(evs) = 1 /\ IsPlainAny(evs[1])
          ELSE Len(evs) = 2 /\ IsRescanEvent(evs[1]) /\ IsPlainAny(evs[2])

C2_Witness ==
  /\ tdone /\ ~precise
  /\ {MUST_SCAN_SUBDIRS, ITEM_CREATED, IS_FILE} \subseteq flags
  /\ HISTORY_DONE \notin flags
  /\ Len(evs) = 2 /\ evs[2].kind = "Any"

\* C3 as stated: with OWN_EVENT and another event-producing bit, every returned
\* event carries process_id = pid, for both values of precise.
C3_Original ==
  (tdone /\ OWN_EVENT \in flags /\ flags \cap ProducingBits # {}) => Stamped(evs)

\* C3 amended: with OWN_EVENT and another event-producing bit, every returned
\* event carries process_id = pid when precise = TRUE; when precise = FALSE no
\* returned event carries a process_id.
C3_OwnEventStamp ==
  (tdone /\ OWN_EVENT \in flags /\ flags \cap ProducingBits # {}) =>
     IF precise THEN Stamped(evs) ELSE Unstamped(evs)

C3_Witness ==
  /\ tdone /\ precise
  /\ {OWN_EVENT, ITEM_CREATED, ITEM_MODIFIED} \subseteq flags
  /\ Len(evs) >= 2
  /\ Stamped(evs)

\* what the rule of one bit may produce: the kinds and the info
RuleKinds(bit) ==
  CASE bit = MUST_SCAN_SUBDIRS -> {"Other"}
    [] bit = ROOT_CHANGED -> {"Modify(Name(From))"}
    [] bit = MOUNT -> {"Create(Other)"}
    [] bit = UNMOUNT -> {"Remove(Other)"}
    [] bit = ITEM_CREATED -> CreateKinds
    [] bit = ITEM_REMOVED -> RemoveKinds
    [] bit = ITEM_RENAMED -> {"Modify(Name(From))"}
    [] bit = INODE_META_MOD -> {"Modify(Metadata(Any))"}
    [] bit = FINDER_INFO_MOD -> {"Modify(Metadata(Other))"}
    [] bit = ITEM_CHANGE_OWNER -> {"Modify(Metadata(Ownership))"}
    [] bit = ITEM_XATTR_MOD -> {"Modify(Metadata(Extended))"}
    [] bit = ITEM_MODIFIED -> {"Modify(Data(Content))"}

RuleInfos(bit) ==
  CASE bit = MUST_SCAN_SUBDIRS -> {{}, {"rescan: user dropped"}, {"rescan: kernel dropped"}}
    [] bit = ROOT_CHANGED -> {{"root changed"}}
    [] bit \in {MOUNT, UNMOUNT} -> {{"mount"}}
    [] bit \in {ITEM_CREATED, ITEM_REMOVED} ->
         {{}, {"is: symlink"}, {"is: hardlink"}, {"is: clone"}}
    [] bit = FINDER_INFO_MOD -> {{"meta: finder info"}}
    [] OTHER -> {{}}

SetRuleBits(f) == SelectSeq(RuleBits, LAMBDA b : b \in f)

\* C4: in precise mode without HISTORY_DONE the result has exactly one event
\* per set rule bit, in rule order, and nothing for any other bit.
C4_RuleOrder ==
  (tdone /\ precise /\ HISTORY_DONE \notin flags) =>
     LET bits == SetRuleBits(flags)
     IN /\ Len(evs) = Len(bits)
        /\ \A i \in 1..Len(bits) :
              /\ evs[i].kind \in RuleKinds(bits[i])
              /\ evs[i].info \in RuleInfos(bits[i])

C4_Witness ==
  /\ tdone /\ precise
  /\ flags = {ITEM_RENAMED, INODE_META_MOD, IS_FILE}
  /\ Len(evs) = 2
  /\ evs[1].kind = "Modify(Name(From))"
  /\ evs[2].kind = "Modify(Metadata(Any))"

\* the event the claim expects for a created/removed item
ExpectedItem(f, prefix) ==
  IF IS_DIR \in f THEN [kind |-> prefix \o "(Folder)", info |-> {}]
  ELSE IF IS_FILE \in f THEN [kind |-> prefix \o "(File)", info |-> {}]
  ELSE IF IS_SYMLINK \in f THEN [kind |-> prefix \o "(Other)", info |-> {"is: symlink"}]
  ELSE IF IS_HARDLINK \in f THEN [kind |-> prefix \o "(Other)", info |-> {"is: hardlink"}]
  ELSE IF ITEM_CLONED \in f THEN [kind |-> prefix \o "(Other)", info |-> {"is: clone"}]
  ELSE [kind |-> prefix \o "(Any)", info |-> {}]

\* the events of the given kinds that are not the mount/unmount event
ItemEvents(s, kinds) ==
  SelectSeq(s, LAMBDA e : e.kind \in kinds /\ e.info # {"mount"})

ItemOk(bit, kinds, prefix) ==
  LET its == ItemEvents(evs, kinds)
  IN IF bit \in flags
     THEN /\ Len(its) = 1
          /\ its[1].kind = ExpectedItem(flags, prefix).kind
          /\ its[1].info = ExpectedItem(flags, prefix).info
     ELSE its = <<>>

\* C5: in precise mode without HISTORY_DONE, ITEM_CREATED yields exactly one
\* Create event: Folder if IS_DIR, else File if IS_FILE, else Other with the
\* info of the first of IS_SYMLINK, IS_HARDLINK, ITEM_CLONED, else Create(Any)
\* without info; ITEM_REMOVED yields the symmetric Remove event.
C5_ItemSubKind ==
  (tdone /\ precise /\ HISTORY_DONE \notin flags) =>
     /\ ItemOk(ITEM_CREATED, CreateKinds, "Create")
     /\ ItemOk(ITEM_REMOVED, RemoveKinds, "Remove")

C5_Witness ==
  /\ tdone /\ precise
  /\ flags = {ITEM_CREATED, IS_DIR, IS_FILE}
  /\ Len(evs) = 1
  /\ evs[1].kind = "Create(Folder)"

RescanInfo(f) ==
  IF USER_DROPPED \in f THEN {"rescan: user dropped"}
  ELSE IF KERNEL_DROPPED \in f THEN {"rescan: kernel dropped"}
  ELSE {}

RescanFirst ==
  (tdone /\ HISTORY_DONE \notin flags) =>
     IF MUST_SCAN_SUBDIRS \in flags
     THEN /\ Len(evs) >= 1
          /\ IsRescanEvent(evs[1])
          /\ evs[1].info = RescanInfo(flags)
     ELSE \A i \in 1..Len(evs) : evs[i].flag # {"Rescan"}

\* C6 as stated: the first event under MUST_SCAN_SUBDIRS is the Other/Rescan
\* event with the info of the dropped hint, no Rescan event without
\* MUST_SCAN_SUBDIRS, and MUST_SCAN_SUBDIRS|USER_DROPPED gives that one event
\* and nothing else for either value of precise.
C6_Original ==
  /\ RescanFirst
  /\ (tdone /\ flags = {MUST_SCAN_SUBDIRS, USER_DROPPED}) => Len(evs) = 1

\* C6 amended: as stated, except that MUST_SCAN_SUBDIRS|USER_DROPPED gives that
\* one event and nothing else only when precise = TRUE; when precise = FALSE
\* the Rescan event is followed by exactly one Any event.
C6_RescanEvent ==
  /\ RescanFirst
  /\ (tdone /\ flags = {MUST_SCAN_SUBDIRS, USER_DROPPED}) =>
        IF precise THEN Len(evs) = 1
        ELSE Len(evs) = 2 /\ IsPlainAny(evs[2])

C6_Witness ==
  /\ tdone
  /\ {MUST_SCAN_SUBDIRS, USER_DROPPED, KERNEL_DROPPED} \subseteq flags
  /\ HISTORY_DONE \notin flags
  /\ Len(evs) >= 1
  /\ evs[1].info = {"rescan: user dropped"}


\* ------------------------------------------------------------------------
\* Properties of the watcher and the callback (checked under Spec)
\* ------------------------------------------------------------------------
\* the calling thread is inside CFRunLoopRun
InRunLoop == pc \in {"runloop", "callback"}

\* background run-loop threads of the watcher: the JoinHandle of a spawned
\* thread is kept in FsEventWatcher.runloop (fsevent.rs 65); nothing spawns one
RunLoopThreads == Cardinality(runloop)

\* streams that are created and not released
LiveStreams == (IF stream = "started" THEN 1 ELSE 0) + orphanStreams

\* C7: watch on an existing path that registers successfully returns Ok to its
\* caller: the calling thread is not parked inside the run loop and the call
\* does not panic.
C7_WatchReturnsOk ==
  appendResult = "Ok" => (~InRunLoop /\ result # "panic" /\ result # "blocked")

\* a watch has started the stream and the watcher has not been shut down
Running == watcher = "alive" /\ proc = "up" /\ stream = "started"

\* just created, or the path set is empty
Idle == watcher = "alive" /\ proc = "up" /\ paths = <<>>

\* C8: a Running watcher has exactly one run-loop thread, exactly one live
\* stream and a runloop handle; an Idle watcher has no thread, no stream and no
\* handle; there are never two live streams or two run-loop threads.
C8_RunningIdleInvariant ==
  /\ Running => (RunLoopThreads = 1 /\ LiveStreams = 1 /\ runloop # {})
  /\ Idle => (RunLoopThreads = 0 /\ LiveStreams = 0 /\ runloop = {})
  /\ LiveStreams <= 1
  /\ RunLoopThreads <= 1

\* the path of a notification attached to each event of its translation
attach_path(path, s) == [i \in 1..Len(s) |-> [s[i] EXCEPT !.paths = << path >>]]

\* what the handler is to receive for the notifications from index p on
RECURSIVE ExpectedEvents(_, _, _)
ExpectedEvents(input, p, prec) ==
  IF p > Len(input) THEN <<>>
  ELSE attach_path(input[p].path, translate_flags(input[p].flags, prec, pid))
         \o ExpectedEvents(input, p + 1, prec)

AllDecodable(input) ==
  \A i \in 1..Len(input) :
     to_str(input[i].path) # {} /\ from_bits(input[i].flags) # {}

\* C9: after a callback invocation whose paths and flag words all decode, the
\* handler has received, in index order and rule order, the translation of
\* every notification with its path attached (for the watcher's precise mode).
C9_CallbackDelivers ==
  (cbCalled /\ cbPanicAt = 0 /\ AllDecodable(cbInput)) =>
     \E prec \in BOOLEAN : cbDelivered = ExpectedEvents(cbInput, 1, prec)

\* C10: the callback never panics at an index whose path is not valid UTF-8:
\* that index is skipped, nothing is reported for it, and the later indices
\* are still processed.
C10_InvalidUtf8Skipped ==
  cbCalled =>
     /\ \A i \in 1..Len(cbInput) : to_str(cbInput[i].path) = {} => cbPanicAt # i
     /\ \A j \in 1..Len(cbOut) : to_str(cbOut[j].path) # {}

\* index i of the invocation was reached by the loop
Reached(i) == cbPanicAt = 0 \/ cbPanicAt >= i

\* C11: a flag word decodes exactly when it has no bit outside the named
\* flags; in the callback every index that the loop reaches with an undefined
\* bit in its flag word aborts the invocation, nothing is reported for that
\* index or a later one, and an index whose flag word has only named bits never
\* aborts.
C11_UndefinedBitsAbort ==
  cbCalled =>
     /\ \A i \in 1..Len(cbInput) :
           /\ (from_bits(cbInput[i].flags) = {}) <=> (\E b \in cbInput[i].flags : b \notin StreamFlags)
           /\ (from_bits(cbInput[i].flags) = {} /\ Reached(i)) => cbPanicAt = i
           /\ from_bits(cbInput[i].flags) # {} => cbPanicAt # i
     /\ \A j \in 1..Len(cbOut) : from_bits(cbOut[j].flag) # {}

\* a step that is a call of watch
WatchStep ==
  \E path \in WatchPaths, recursive \in BOOLEAN, fs \in FsOutcomes, create \in CreateOutcomes :
     watch_inner(path, recursive, fs, create)

\* C12: a watch whose registration fails returns PathNotFound to its caller
\* without panicking and without starting a stream, and leaves the native path
\* array and recursive_info as they were.
C12_FailedWatchUnchanged ==
  [][ (WatchStep /\ appendResult' # "Ok") =>
        /\ result' = "PathNotFound"
        /\ pc' = "idle"
        /\ paths' = paths
        /\ recursive_info' = recursive_info
        /\ stream' = stream
        /\ calls' = calls ]_vars

\* how many entries of the path list are spellings of the canonical path c
Occurrences(ps, c) == Cardinality({i \in 1..Len(ps) : canonicalize(ps[i]) = c})

\* the canonical path c has been registered by one successful watch
RegisteredOnce(c) ==
  /\ Occurrences(paths, c) = 1
  /\ impl = "fsevent" => \E e \in recursive_info : e[1] = c

\* C13: when a path that is registered is watched again, under any spelling,
\* with mode r', the registry afterwards has one entry for its canonical path,
\* with flag r', and the path list handed to the stream still holds it once.
C13_LastWriteWinsOnce ==
  [][ \A path \in WatchPaths, recursive \in BOOLEAN, fs \in FsOutcomes,
         create \in CreateOutcomes :
        ( /\ RegisteredOnce(canonicalize(path))
          /\ watch_inner(path, recursive, fs, create)
          /\ appendResult' = "Ok" ) =>
           /\ impl = "fsevent" =>
                {e \in recursive_info' : e[1] = canonicalize(path)}
                   = {<< canonicalize(path), recursive >>}
           /\ Occurrences(paths', canonicalize(path)) = 1 ]_vars

Watched(path) == \E e \in recursive_info : e[1] = canonicalize(path)

C15_DropShutsDown ==
  watcher = "dropped" =>
     /\ LiveStreams = 0
     /\ ~InRunLoop
     /\ RunLoopThreads = 0
     /\ array = "released"
     /\ handler # "held"

\* C16: the StreamContextInfo allocated by run() is live while its stream is
\* started, freed once the stream is released, and never leaked, also when
\* stream creation fails.
C16_ContextFreedOnce ==
  /\ stream = "started" => context = "live"
  /\ stream = "released" => context = "freed"
  /\ context # "leaked"

\* path strings the native array retains: CFArrayAppendValue retains the
\* string (fsevent.rs 284) and CFRelease(cf_path) gives up the creating
\* reference (285), so a string lives until the array is released
HeldStrings == IF array = "released" THEN 0 ELSE Len(paths)

CountOf(s, c) == Cardinality({i \in 1..Len(s) : s[i] = c})

\* C17: no stream is released twice, and once the watcher is dropped with no
\* thread inside the run loop no native resource is held: no path string, no
\* array and no stream.
C17_NativeReleasedOnce ==
  /\ CountOf(calls, "Release") <= CountOf(calls, "Create")
  /\ (watcher = "dropped" /\ ~InRunLoop) =>
        /\ HeldStrings = 0
        /\ array = "released"
        /\ stream \notin {"started", "orphaned"}
        /\ orphanStreams = 0

ConfigureStep == \E config \in Configs : configure(config)

\* C18 as stated: configure returns Ok(true) for latency_seconds,
\* since_event_id and precise_events, and Ok(false) for any other option.
C18_Original ==
  [][ \A config \in Configs :
        configure(config) =>
           result' = IF config \in RecognizedConfigs THEN "Ok(true)" ELSE "Ok(false)" ]_vars

\* C18: configure returns Ok(false) for every option and changes nothing of
\* the watcher: not since_when, latency or the creation flags, not the path
\* list, the registry or the stream.
C18_ConfigureIgnoresOption ==
  [][ ConfigureStep =>
        /\ result' = "Ok(false)"
        /\ settings' = settings
        /\ paths' = paths
        /\ recursive_info' = recursive_info
        /\ stream' = stream
        /\ calls' = calls ]_vars

\* configure has answered on a watcher that has a registered path
C18_Witness == result = "Ok(false)" /\ Len(paths) > 0 /\ appendResult = "Ok"

\* C19 as stated: with OWN_EVENT and precise = TRUE, process_id is on every
\* event of rules 4-13 and the Rescan event of rule 2 carries none; without
\* OWN_EVENT no returned event carries a process_id.
C19_Original ==
  tdone =>
     /\ (OWN_EVENT \in flags /\ precise) =>
           \A i \in 1..Len(evs) :
              evs[i].process_id = IF IsRescanEvent(evs[i]) THEN {} ELSE {pid}
     /\ OWN_EVENT \notin flags => Unstamped(evs)

\* C19 amended: with OWN_EVENT and precise = TRUE, process_id is on every
\* returned event, the Rescan event of rule 2 included; without OWN_EVENT no
\* returned event carries a process_id.
C19_StampIncludesRescan ==
  tdone =>
     /\ (OWN_EVENT \in flags /\ precise) =>
           \A i \in 1..Len(evs) : evs[i].process_id = {pid}
     /\ OWN_EVENT \notin flags => Unstamped(evs)

\* a Rescan event and an item event of one call, both stamped
C19_Witness ==
  /\ tdone /\ precise
  /\ {OWN_EVENT, MUST_SCAN_SUBDIRS, ITEM_MODIFIED} \subseteq flags
  /\ Len(evs) >= 2
  /\ IsRescanEvent(evs[1])
  /\ evs[1].process_id = {pid}
  /\ evs[Len(evs)].process_id = {pid}

\* the native calls of one stream, in the order of the protocol
Protocol ==
  << "Create", "ScheduleWithRunLoop", "Start", "CFRunLoopRun",
     "Stop", "Invalidate", "Release" >>

IsPrefix(s, t) == Len(s) <= Len(t) /\ SubSeq(t, 1, Len(s)) = s

\* C20: the native calls made for a stream are, in order and each once:
\* create, schedule, start, enter the run loop, and after the wake-up stop,
\* invalidate, release; and once the stream is released the thread that ran it
\* has returned normally, not panicked.
C20_RunLoopProtocol ==
  /\ IsPrefix(calls, Protocol)
  /\ calls = Protocol => (pc = "idle" /\ result # "panic")

\* C21: a watch whose run() reaches FSEventStreamCreate and gets no stream
\* returns a Generic error to its caller: the only native call made for the
\* stream is the creation, the run loop is not entered, the process goes on
\* and no stream is started.
C21_NullStreamGenericError ==
  [][ \A path \in WatchPaths, recursive \in BOOLEAN, fs \in FsOutcomes,
         create \in CreateOutcomes :
        ( /\ watch_inner(path, recursive, fs, create)
          /\ create # "ok"
          /\ appendResult' # "panic"
          /\ Len(paths') > 0 ) =>
           /\ result' = "Generic"
           /\ calls' = << "Create" >>
           /\ pc' = "idle"
           /\ proc' = "up"
           /\ stream' # "started" ]_vars

\* the bytes of a registered (canonical) path
PathBytes(p) ==
  CASE p = "/a" -> << 47, 97 >>
    [] p = "/b" -> << 47, 98 >>
    [] OTHER -> << >>

\* the root is the event path or an ancestor of it: at any depth when the root
\* is recursive, as its parent directory when it is not
UnderRoot(e, root, recursive) ==
  LET rb == PathBytes(root)
  IN \/ e = rb
     \/ /\ Len(e) > Len(rb) + 1
        /\ SubSeq(e, 1, Len(rb) + 1) = rb \o << 47 >>
        /\ recursive \/ \A i \in (Len(rb) + 2)..Len(e) : e[i] # 47

Handled(e, info) == \E en \in info : UnderRoot(e, en[1], en[2])

\* an event the OS sends for the stream: it lies under one of its paths
BelowSomeRoot(e, info) == \E en \in info : UnderRoot(e, en[1], TRUE)

\* C22: of the events the OS sends for its stream, the callback of fsevent.rs
\* lets through only those under a root of the stream context's snapshot in
\* that root's mode: at any depth for a recursive root, the root itself or a
\* direct child for a non-recursive one. The others are dropped.
C22_RecursiveFilter ==
  (impl = "fsevent" /\ cbCalled) =>
     \A j \in 1..Len(cbOut) :
        BelowSomeRoot(cbOut[j].path, ctxInfo) => Handled(cbOut[j].path, ctxInfo)

HasHg(x) == contains(x.path, DotHg)

\* the lines for the notifications of s whose path has no ".hg", in order
ReportedOf(s) ==
  LET t == SelectSeq(s, LAMBDA x : ~HasHg(x))
  IN [j \in 1..Len(t) |-> [path |-> t[j].path, flag |-> t[j].flags]]

\* a notification at which fsevent.rs panics: its path is not UTF-8, or it has
\* no ".hg" and its flag word has a bit without a name
Aborts(x) == to_str(x.path) = {} \/ (~HasHg(x) /\ from_bits(x.flags) = {})

\* the first such index, 0 when there is none
FirstAbort(s) ==
  IF \E i \in 1..Len(s) : Aborts(s[i])
  THEN CHOOSE i \in 1..Len(s) : Aborts(s[i]) /\ \A k \in 1..(i - 1) : ~Aborts(s[k])
  ELSE 0

\* C23 as stated, for notifications whose paths all decode: in fsevent.rs an
\* index whose path contains ".hg" gives no output and does not abort the
\* invocation, and every index whose path has no ".hg" is reported, in index
\* order.
C23_Original ==
  (impl = "fsevent" /\ cbCalled /\ \A k \in 1..Len(cbInput) : to_str(cbInput[k].path) # {}) =>
     /\ \A i \in 1..Len(cbInput) :
           (to_str(cbInput[i].path) # {} /\ HasHg(cbInput[i])) => cbPanicAt # i
     /\ cbOut = ReportedOf(cbInput)

\* C23 amended: in fsevent.rs an index whose path is UTF-8 and contains ".hg"
\* gives no output and does not abort the invocation, whatever its flag word;
\* the invocation aborts at the first index whose path is not UTF-8 or whose
\* path has no ".hg" and whose flag word has an undefined bit; the indices
\* before that one (all of them when there is none) whose path has no ".hg"
\* are reported, in index order.
C23_HgSkippedBeforeDecode ==
  (impl = "fsevent" /\ cbCalled) =>
     /\ \A i \in 1..Len(cbInput) :
           (to_str(cbInput[i].path) # {} /\ HasHg(cbInput[i])) => cbPanicAt # i
     /\ cbPanicAt = FirstAbort(cbInput)
     /\ cbOut = ReportedOf(SubSeq(cbInput, 1,
                   IF cbPanicAt = 0 THEN Len(cbInput) ELSE cbPanicAt - 1))
     /\ \A j \in 1..Len(cbOut) : ~contains(cbOut[j].path, DotHg)

\* an invocation that went past a ".hg" index with an undefined flag bit and
\* reported the index after it
C23_Witness ==
  /\ impl = "fsevent" /\ cbCalled
  /\ Len(cbInput) = 2
  /\ HasHg(cbInput[1]) /\ from_bits(cbInput[1].flags) = {}
  /\ cbPanicAt = 0
  /\ Len(cbOut) = 1 /\ cbOut[1].path = cbInput[2].path

====
